---------------------------- MODULE Spec2Model ----------------------------
(***************************************************************************)
(* The PDF text search of the example application: searchUtils.ts          *)
(* (extractPageText, findMatchPositions, getMatchContext, searchPDF) and   *)
(* the useSearch hook.                                                     *)
(*                                                                         *)
(* A JavaScript string is a sequence of one-character strings; offsets in  *)
(* the records of the program (start, end, matchStart, matchEnd) are the   *)
(* program's 0-based offsets, the sequences are 1-based.                   *)
(***************************************************************************)
EXTENDS Integers, Sequences, FiniteSets, TLC

VARIABLES
    \* ---- one page through extractPageText / findMatchPositions
    items,          \* textContent.items of the page, in the producer's order
    searchQuery,    \* the query handed to findMatchPositions
    textItems,      \* extractPageText: textItems after textItems.sort(...)
    fullText,       \* extractPageText: the returned (trimmed) fullText
    positionMap,    \* extractPageText: the returned positionMap
    matches,        \* findMatchPositions: the returned matches
    pc,             \* the position in the page pipeline
    \* ---- one call of getMatchContext
    ctxArgs,        \* [fullText, matchStart, matchEnd, contextLength]
    context,        \* the returned context (empty before the call)
    \* ---- searchPDF calls and the useSearch hook
    pdfDocument,    \* the document: [null, pages], a page being its items
    scans,          \* the searchPDF calls in flight, oldest first
    searchResults,          \* useSearch: state searchResults
    currentResultIndex,     \* useSearch: state currentResultIndex
    isSearching,            \* useSearch: state isSearching
    lastSearchQuery,        \* useSearch: lastSearchQuery.current
    event,          \* what the last step did: the call, its document
                    \* accesses, its callback invocations, its outcome
    remembered      \* history: the most recent non-blank query passed to
                    \* performSearch since the last clearSearch or blank
                    \* query (empty when there is none)

textVars == <<items, searchQuery, textItems, fullText, positionMap, matches>>
ctxVars == <<ctxArgs, context>>
hookVars == <<searchResults, currentResultIndex, isSearching, lastSearchQuery, remembered>>
callVars == <<pdfDocument, scans, event>>
vars == <<textVars, ctxVars, pc, hookVars, callVars>>

-----------------------------------------------------------------------------
(* Bounds of the model.                                                    *)

\* The largest number of fragments (textContent.items) of a page.
MaxFrags == 3
\* The largest number of scans started by performSearch and not yet resumed.
MaxScans == 2
\* The largest number of pages of a document handed to searchPDF directly.
MaxPages == 3
\* getMatchContext on its own: the buffer is at most twice the radius and
\* MaxBufSlack characters long, the match at most MaxSpan characters.
MaxBufSlack == 3
MaxSpan == 2

(* Program constants.                                                      *)

\* searchUtils.ts line 66: Math.abs(yDiff) > 5
LineTolerance == 5
\* searchUtils.ts line 197: contextLength = 50
DefaultContextLength == 50

-----------------------------------------------------------------------------
(* Strings.                                                                *)

Min(S) == CHOOSE m \in S : \A n \in S : m <= n
Max(S) == CHOOSE m \in S : \A n \in S : m >= n
Abs(n) == IF n < 0 THEN -n ELSE n

\* String.prototype.toLowerCase, on the letters of the model's alphabet.
LowerChar(c) ==
    CASE c = "A" -> "a"
      [] c = "B" -> "b"
      [] OTHER -> c

ToLowerCase(s) == [i \in 1..Len(s) |-> LowerChar(s[i])]

IsWhiteSpace(c) == c = " "

\* String.prototype.trim: leading and trailing white space removed.
Trim(s) ==
    LET keep == {i \in 1..Len(s) : ~IsWhiteSpace(s[i])}
    IN  IF keep = {} THEN <<>> ELSE SubSeq(s, Min(keep), Max(keep))

\* String.prototype.slice(start, end) for 0 <= start, 0 <= end.
Slice(s, start, end) ==
    LET e == IF end > Len(s) THEN Len(s) ELSE end
    IN  IF start >= e THEN <<>> ELSE SubSeq(s, start + 1, e)

\* String.prototype.indexOf(needle, from) for from >= 0: the first offset
\* i >= from at which needle occurs, -1 when there is none.
IndexOf(hay, needle, from) ==
    LET hits == {i \in from..(Len(hay) - Len(needle)) :
                    SubSeq(hay, i + 1, i + Len(needle)) = needle}
    IN  IF hits = {} THEN -1 ELSE Min(hits)

Ellipsis == <<".", ".", ".">>

-----------------------------------------------------------------------------
(* extractPageText.                                                        *)

\* An item of textContent.items (interface TextItem); the x and y of a
\* fragment are transform[4] and transform[5].
Item(str, x, y, width, height) ==
    [str |-> str, transform |-> <<1, 0, 0, 1, x, y>>,
     width |-> width, height |-> height]

\* Lines 49-61: the fragment pushed to textItems for an item.
ToTextItem(item) ==
    [text |-> item.str, x |-> item.transform[5], y |-> item.transform[6],
     width |-> item.width, height |-> item.height]

ToTextItems(its) == [i \in 1..Len(its) |-> ToTextItem(its[i])]

\* Lines 64-71: the comparator of textItems.sort.
CompareAscendingY(a, b) ==
    LET yDiff == a.y - b.y
    IN  IF Abs(yDiff) > LineTolerance
        THEN (IF yDiff > 0 THEN 1 ELSE -1)
        ELSE a.x - b.x

Compare(a, b) ==
    LET yDiff == b.y - a.y
    IN  IF Abs(yDiff) > LineTolerance
        THEN (IF yDiff > 0 THEN 1 ELSE -1)
        ELSE a.x - b.x

\* ECMAScript's "consistent comparator" for the values of a list: the
\* comparator divides them into totally ordered equivalence classes.
ConsistentComparator(s) ==
    LET V == {s[i] : i \in 1..Len(s)}
    IN  /\ \A a \in V : Compare(a, a) = 0
        /\ \A a, b \in V :
              /\ (Compare(a, b) = 0) => (Compare(b, a) = 0)
              /\ (Compare(a, b) < 0) => (Compare(b, a) > 0)
        /\ \A a, b, c \in V :
              /\ (Compare(a, b) = 0 /\ Compare(b, c) = 0) => (Compare(a, c) = 0)
              /\ (Compare(a, b) < 0 /\ Compare(b, c) < 0) => (Compare(a, c) < 0)
              /\ (Compare(a, b) > 0 /\ Compare(b, c) > 0) => (Compare(a, c) > 0)

\* The permutations of 1..n.
Perms(n) == {p \in [1..n -> 1..n] : \A i, j \in 1..n : (p[i] = p[j]) => (i = j)}

\* The place of s[i] in the stable sorted order: after the values the
\* comparator puts before it and after the equal ones that precede it in s.
Rank(s, i) ==
    1 + Cardinality({j \in 1..Len(s) :
                        \/ Compare(s[j], s[i]) < 0
                        \/ (Compare(s[j], s[i]) = 0 /\ j < i)})

StableSort(s) == [k \in 1..Len(s) |-> s[CHOOSE i \in 1..Len(s) : Rank(s, i) = k]]

\* Array.prototype.sort with the comparator: the stable sorted order when
\* the comparator is consistent on the values; otherwise the order is
\* implementation-defined, any permutation of the values.
SortOutcomes(s) ==
    IF ConsistentComparator(s)
    THEN {StableSort(s)}
    ELSE {[i \in 1..Len(s) |-> s[p[i]]] : p \in Perms(Len(s))}

\* Lines 84-97: the untrimmed buffer, each text followed by one space.
RECURSIVE RawText(_)
RawText(s) ==
    IF s = <<>> THEN <<>>
    ELSE RawText(SubSeq(s, 1, Len(s) - 1)) \o s[Len(s)].text \o <<" ">>

\* Lines 85-96: the entry pushed for the i-th sorted fragment; start is the
\* buffer's length before the append, end its length after it minus one.
MapEntry(s, i) ==
    LET start == Len(RawText(SubSeq(s, 1, i - 1)))
        end == Len(RawText(SubSeq(s, 1, i))) - 1
    IN  [start |-> start, end |-> end, x |-> s[i].x, y |-> s[i].y,
         width |-> s[i].width, height |-> s[i].height]

BuildPositionMap(s) == [i \in 1..Len(s) |-> MapEntry(s, i)]

\* Line 99: { fullText: fullText.trim(), positionMap }.
BuildPageText(s) ==
    [fullText |-> Trim(RawText(s)), positionMap |-> BuildPositionMap(s)]

-----------------------------------------------------------------------------
(* findMatchPositions.                                                     *)

\* Lines 152 and 155: pos.start <= offset && pos.end >= offset.
Covers(pos, offset) == pos.start <= offset /\ pos.end >= offset

\* Lines 151-159: the loop over positionMap stops (break) at the first
\* entry that covers matchEnd; 0 stands for an endPos left undefined.
EndPosIndex(pm, matchEnd) ==
    LET E == {k \in 1..Len(pm) : Covers(pm[k], matchEnd)}
    IN  IF E = {} THEN 0 ELSE Min(E)

\* Lines 151-154: startPos is the last entry covering matchIndex among the
\* entries the loop visits; 0 stands for a startPos left undefined.
StartPosIndex(pm, matchIndex, matchEnd) ==
    LET stop == IF EndPosIndex(pm, matchEnd) = 0 THEN Len(pm)
                ELSE EndPosIndex(pm, matchEnd)
        S == {k \in 1..stop : Covers(pm[k], matchIndex)}
    IN  IF S = {} THEN 0 ELSE Max(S)

\* Lines 162-181: the match pushed for resolved startPos and endPos.
MatchBox(matchIndex, matchEnd, startPos, endPos) ==
    LET left == Min({startPos.x, endPos.x})
        right == Max({startPos.x + startPos.width, endPos.x + endPos.width})
        top == Max({startPos.y + startPos.height, endPos.y + endPos.height})
        bottom == Min({startPos.y, endPos.y})
    IN  [matchStart |-> matchIndex, matchEnd |-> matchEnd,
         x |-> left, y |-> bottom,
         width |-> right - left, height |-> top - bottom]

\* Line 184 with the scan resumed after the whole match instead.
SearchIndexAfterMatch(matchIndex, matchEnd) == matchEnd

\* Line 184: searchIndex = matchIndex + 1.
NextSearchIndex(matchIndex, matchEnd) == matchIndex + 1

\* Lines 140-185: the while loop, from searchIndex on.
RECURSIVE FindFrom(_, _, _, _)
FindFrom(searchText, textToSearch, pm, searchIndex) ==
    IF ~(searchIndex < Len(textToSearch)) THEN <<>>
    ELSE
      LET matchIndex == IndexOf(textToSearch, searchText, searchIndex)
      IN  IF matchIndex = -1 THEN <<>>
          ELSE
            LET matchEnd == matchIndex + Len(searchText)
                si == StartPosIndex(pm, matchIndex, matchEnd)
                ei == EndPosIndex(pm, matchEnd)
                found == IF si # 0 /\ ei # 0
                         THEN <<MatchBox(matchIndex, matchEnd, pm[si], pm[ei])>>
                         ELSE <<>>
            IN  found \o FindFrom(searchText, textToSearch, pm,
                                  NextSearchIndex(matchIndex, matchEnd))

\* Lines 109-188.
FindMatchPositions(query, text, pm) ==
    FindFrom(ToLowerCase(query), ToLowerCase(text), pm, 0)

-----------------------------------------------------------------------------
(* getMatchContext.                                                        *)

\* Line 205 with the test start >= 0.
LeadingEllipsisAlways(start) == start >= 0

\* Line 205: if (start > 0).
LeadingEllipsis(start) == start > 0

\* Line 206: if (end < fullText.length).
TrailingEllipsis(end, length) == end < length

\* Lines 193-209.
GetMatchContext(text, matchStart, matchEnd, contextLength) ==
    LET start == Max({0, matchStart - contextLength})
        end == Min({Len(text), matchEnd + contextLength})
        sliced == Slice(text, start, end)
        led == IF LeadingEllipsis(start) THEN Ellipsis \o sliced ELSE sliced
    IN  IF TrailingEllipsis(end, Len(text)) THEN led \o Ellipsis ELSE led

-----------------------------------------------------------------------------
(* Inputs of the page pipeline and of getMatchContext.                     *)

\* Fragment texts: empty, one letter, leading white space and upper case,
\* a repeated letter.
FragTexts == {<<>>, <<"a">>, <<" ", "A">>, <<"a", "a", "a">>}

\* Fragment geometry [x, y, width, height]: three fragments in one line
\* band (y within LineTolerance) and a degenerate one on another line.
FragBoxes == {<<0, 0, 1, 1>>, <<1, 4, 1, 1>>, <<2, 0, 1, 1>>, <<0, 10, 0, 0>>}

PageItems == {Item(t, b[1], b[2], b[3], b[4]) : t \in FragTexts, b \in FragBoxes}

\* Fragments for the bounding boxes alone: one letter each.
BoxItems == {Item(<<"a">>, b[1], b[2], b[3], b[4]) : b \in FragBoxes}

\* Non-blank queries: one letter, upper case, one overlapping itself, one
\* reaching across a separator on both sides.
PageQueries == {<<"a">>, <<"A", "a">>, <<"a", "a">>, <<" ", "a", " ">>}

\* Fragments for the reading order alone: one text, three columns on three
\* lines 4 apart (each within LineTolerance of the next), and a far line.
OrderItems ==
    {Item(<<"a">>, x, y, 1, 1) : x \in {0, 25, 50}, y \in {100, 96, 92}}
        \cup {Item(<<"a">>, 0, 50, 1, 1)}

SeqsUpTo(S, n) == UNION {[1..k -> S] : k \in 0..n}

Letters == <<"a", "b", "c", "d", "e", "f", "g">>
Pattern(n) == [i \in 1..n |-> Letters[((i - 1) % Len(Letters)) + 1]]

ContextLengths == {1, 2, DefaultContextLength}

\* Calls getMatchContext(fullText, matchStart, matchEnd, contextLength) for
\* a non-empty span inside the buffer: buffers of up to twice the radius
\* and MaxBufSlack more characters, spans of up to MaxSpan characters.
ContextCallsOf(r) ==
    UNION {UNION {{[fullText |-> Pattern(n), matchStart |-> st, matchEnd |-> e,
                    contextLength |-> r] :
                        e \in (st + 1)..Min({n, st + MaxSpan})} :
                    st \in 0..(n - 1)} :
              n \in 0..(2 * r + MaxBufSlack)}

ContextCalls == UNION {ContextCallsOf(r) : r \in ContextLengths}

NoContextCall == [fullText |-> <<>>, matchStart |-> 0, matchEnd |-> 0, contextLength |-> 0]

-----------------------------------------------------------------------------
(* The page pipeline as a state machine.                                   *)

IdleText ==
    /\ items = <<>>
    /\ searchQuery = <<>>
    /\ textItems = <<>>
    /\ fullText = <<>>
    /\ positionMap = <<>>
    /\ matches = <<>>

IdleContext ==
    /\ ctxArgs = NoContextCall
    /\ context = <<>>

\* useSearch, lines 20-23: the state after construction.
IdleHook ==
    /\ searchResults = <<>>
    /\ currentResultIndex = -1
    /\ isSearching = FALSE
    /\ lastSearchQuery = <<>>
    /\ remembered = <<>>

NoDocument == [null |-> TRUE, pages |-> <<>>]

NoReturn == [threw |-> FALSE, value |-> <<>>, visited |-> <<>>, failed |-> {}]

\* The record of a step: the call made or resumed and its query, the
\* document accesses of the step, the results handed to onNavigateToResult
\* in it, how the performSearch promise settled in it, the internal failure
\* met, and what a searchPDF call that ended in it returned.
Event(op, query) ==
    [op |-> op, query |-> query, docAccess |-> {}, navigated |-> <<>>,
     settled |-> "none", failure |-> "none", returned |-> NoReturn]

IdleCalls ==
    /\ pdfDocument = NoDocument
    /\ scans = <<>>
    /\ event = Event("none", <<>>)

InitTextOf(S) ==
    /\ items \in SeqsUpTo(S, MaxFrags)
    /\ searchQuery \in PageQueries
    /\ textItems = <<>>
    /\ fullText = <<>>
    /\ positionMap = <<>>
    /\ matches = <<>>
    /\ pc = "start"
    /\ IdleContext
    /\ IdleHook
    /\ IdleCalls

InitText == InitTextOf(PageItems)

InitOrder == InitTextOf(OrderItems)

InitBoxes == InitTextOf(BoxItems)

InitContext ==
    /\ ctxArgs \in ContextCalls
    /\ context = <<>>
    /\ pc = "context"
    /\ IdleText
    /\ IdleHook
    /\ IdleCalls

\* extractPageText, lines 36-99, on a page whose extraction succeeds.
ExtractPageText ==
    /\ pc = "start"
    /\ \E sorted \in SortOutcomes(ToTextItems(items)) :
          LET pageText == BuildPageText(sorted)
          IN  /\ textItems' = sorted
              /\ fullText' = pageText.fullText
              /\ positionMap' = pageText.positionMap
    /\ pc' = "extracted"
    /\ UNCHANGED <<items, searchQuery, matches, ctxVars, hookVars, callVars>>

\* findMatchPositions(searchQuery, fullText, positionMap), line 235.
FindMatches ==
    /\ pc = "extracted"
    /\ matches' = FindMatchPositions(searchQuery, fullText, positionMap)
    /\ pc' = "matched"
    /\ UNCHANGED <<items, searchQuery, textItems, fullText, positionMap, ctxVars,
                   hookVars, callVars>>

\* getMatchContext(fullText, matchStart, matchEnd, contextLength).
CallGetMatchContext ==
    /\ pc = "context"
    /\ context' = GetMatchContext(ctxArgs.fullText, ctxArgs.matchStart,
                                  ctxArgs.matchEnd, ctxArgs.contextLength)
    /\ pc' = "contextDone"
    /\ UNCHANGED <<ctxArgs, textVars, hookVars, callVars>>

NextText == ExtractPageText \/ FindMatches

SpecText == InitText /\ [][NextText]_vars

SpecOrder == InitOrder /\ [][NextText]_vars

SpecBoxes == InitBoxes /\ [][NextText]_vars

SpecContext == InitContext /\ [][CallGetMatchContext]_vars

-----------------------------------------------------------------------------
(* Properties of the page pipeline.                                        *)

\* The offsets at which the lower-cased query occurs in the lower-cased
\* buffer.
Occurrences(text, query) ==
    {i \in 0..(Len(text) - Len(query)) :
        SubSeq(ToLowerCase(text), i + 1, i + Len(query)) = ToLowerCase(query)}

\* C5: findMatchPositions returns exactly one match for every offset at
\* which the lower-cased query occurs in the lower-cased page buffer, in
\* ascending offset order, with matchStart = i and matchEnd = i + |q|;
\* overlapping occurrences are each reported and none is skipped.
C5_MatchCompleteness ==
    (pc = "matched") =>
        /\ Len(matches) = Cardinality(Occurrences(fullText, searchQuery))
        /\ {matches[k].matchStart : k \in 1..Len(matches)}
              = Occurrences(fullText, searchQuery)
        /\ \A k \in 1..Len(matches) :
              matches[k].matchEnd = matches[k].matchStart + Len(searchQuery)
        /\ \A k \in 1..(Len(matches) - 1) :
              matches[k].matchStart < matches[k + 1].matchStart

\* C5 witness: query "aa" over the buffer "aaa" has been searched and gave
\* the two overlapping matches [0,2) and [1,3).
C5_Witness ==
    /\ pc = "matched"
    /\ fullText = <<"a", "a", "a">>
    /\ searchQuery = <<"a", "a">>
    /\ Len(matches) = 2
    /\ matches[1].matchStart = 0 /\ matches[1].matchEnd = 2
    /\ matches[2].matchStart = 1 /\ matches[2].matchEnd = 3

\* The rectangle [x, x+width] x [y, y+height] of inner lies in that of outer.
BoxContains(outer, inner) ==
    /\ outer.x <= inner.x
    /\ inner.x + inner.width <= outer.x + outer.width
    /\ outer.y <= inner.y
    /\ inner.y + inner.height <= outer.y + outer.height

\* C10: the box of every match contains the rectangle of every fragment
\* whose position-map range intersects the matched span
\* [matchStart, matchEnd], the fragments between the first and the last
\* included.
C10_BoxCoversFragments ==
    (pc = "matched") =>
        \A k \in 1..Len(matches) : \A j \in 1..Len(positionMap) :
            (/\ positionMap[j].start <= matches[k].matchEnd
             /\ positionMap[j].end >= matches[k].matchStart)
                => BoxContains(matches[k], positionMap[j])

\* The offset, in the buffer built from the fragments its, at which the
\* text of the k-th fragment begins.
RECURSIVE FragmentOffset(_, _)
FragmentOffset(its, k) ==
    IF k = 1 THEN 0
    ELSE FragmentOffset(its, k - 1) + Len(its[k - 1].text) + 1

\* The number of white-space characters that begin the sequence s.
LeadingWhiteSpace(s) ==
    Cardinality({i \in 1..Len(s) : \A j \in 1..i : IsWhiteSpace(s[j])})

\* What trim() took from the front of the buffer built from its.
TrimmedLead(its) ==
    LeadingWhiteSpace([o \in 1..FragmentOffset(its, Len(its) + 1) |->
        LET k == CHOOSE j \in 1..Len(its) :
                    /\ FragmentOffset(its, j) < o
                    /\ o <= FragmentOffset(its, j + 1)
        IN  IF o = FragmentOffset(its, k + 1) THEN " "
            ELSE its[k].text[o - FragmentOffset(its, k)]])

\* The fragment that produced the character at offset o of the returned
\* fullText, or that precedes that separator space.
Producer(its, o) ==
    CHOOSE k \in 1..Len(its) :
        /\ FragmentOffset(its, k) <= o + TrimmedLead(its)
        /\ o + TrimmedLead(its) < FragmentOffset(its, k + 1)

\* C11: in the {fullText, positionMap} returned by extractPageText every
\* entry indexes the returned (trimmed) fullText: the characters of
\* fullText from the entry's start on are those of its fragment's text,
\* start <= end, starts do not decrease, and every offset of fullText lies
\* in the [start, end] range of exactly one entry, the entry of the
\* fragment that produced that character.
C11_PositionMapAlignment ==
    (pc \in {"extracted", "matched"}) =>
        /\ Len(positionMap) = Len(textItems)
        /\ \A i \in 1..Len(positionMap) :
              /\ positionMap[i].start <= positionMap[i].end
              /\ (i < Len(positionMap)) =>
                    (positionMap[i].start <= positionMap[i + 1].start)
              /\ \A j \in 1..Len(textItems[i].text) :
                    (positionMap[i].start + j <= Len(fullText)) =>
                        (fullText[positionMap[i].start + j] = textItems[i].text[j])
        /\ \A o \in 0..(Len(fullText) - 1) :
              {i \in 1..Len(positionMap) : Covers(positionMap[i], o)}
                  = {Producer(textItems, o)}

\* The two-key rule puts fragment a before fragment b, or leaves the pair
\* free: b is not on a higher line, and on the same line b is not further
\* left.
InReadingOrder(a, b) ==
    /\ ~(Abs(a.y - b.y) > LineTolerance /\ b.y > a.y)
    /\ ~(Abs(a.y - b.y) <= LineTolerance /\ b.x < a.x)

PairwiseReadingOrder ==
    \A i, j \in 1..Len(positionMap) :
        (i < j) => InReadingOrder(positionMap[i], positionMap[j])

\* "On the same line" is transitive on the fragments of the page.
SameLineTransitive ==
    \A i, j, k \in 1..Len(items) :
        (/\ Abs(ToTextItem(items[i]).y - ToTextItem(items[j]).y) <= LineTolerance
         /\ Abs(ToTextItem(items[j]).y - ToTextItem(items[k]).y) <= LineTolerance)
            => Abs(ToTextItem(items[i]).y - ToTextItem(items[k]).y) <= LineTolerance

\* C9 as stated: for every fragment list, every pair of fragments of the
\* reconstructed buffer is ordered by the two-key rule.
C9_Original == (pc # "start") => PairwiseReadingOrder

\* C9 amended: for every fragment list on which "same line" (y within 5)
\* is transitive, every pair of fragments of the reconstructed buffer is
\* ordered by the two-key rule.
C9_ReadingOrder == (pc # "start" /\ SameLineTransitive) => PairwiseReadingOrder

\* C9 witness: three fragments on two lines, supplied out of reading order,
\* have been reconstructed.
C9_Witness ==
    /\ pc = "extracted"
    /\ Len(items) = 3
    /\ SameLineTransitive
    /\ textItems # ToTextItems(items)
    /\ positionMap[1].y = 100 /\ positionMap[1].x = 0
    /\ positionMap[2].y = 96 /\ positionMap[2].x = 50
    /\ positionMap[3].y = 50 /\ positionMap[3].x = 0

-----------------------------------------------------------------------------
(* Properties of getMatchContext.                                          *)

HasLeadingEllipsis == Len(context) >= 3 /\ SubSeq(context, 1, 3) = Ellipsis

HasTrailingEllipsis ==
    Len(context) >= 3 /\ SubSeq(context, Len(context) - 2, Len(context)) = Ellipsis

\* The context without its ellipses.
ContextBody ==
    SubSeq(context, IF HasLeadingEllipsis THEN 4 ELSE 1,
           IF HasTrailingEllipsis THEN Len(context) - 3 ELSE Len(context))

\* The slice of T from max(0, s - r) to min(|T|, e + r).
ContextWindow ==
    Slice(ctxArgs.fullText,
          Max({0, ctxArgs.matchStart - ctxArgs.contextLength}),
          Min({Len(ctxArgs.fullText), ctxArgs.matchEnd + ctxArgs.contextLength}))

CharsBefore == ctxArgs.matchStart
CharsAfter == Len(ctxArgs.fullText) - ctxArgs.matchEnd

\* C8 as stated: the context is the window with ellipses such that a match
\* at offset 0 has no leading one, a match ending at the last character no
\* trailing one, and a match with at least r characters on both sides has
\* both.
C8_Original ==
    (pc = "contextDone") =>
        /\ ContextBody = ContextWindow
        /\ (CharsBefore = 0) => ~HasLeadingEllipsis
        /\ (CharsAfter = 0) => ~HasTrailingEllipsis
        /\ (CharsBefore >= ctxArgs.contextLength /\ CharsAfter >= ctxArgs.contextLength)
              => (HasLeadingEllipsis /\ HasTrailingEllipsis)

\* C8 amended: as stated, but both ellipses are promised only for a match
\* with more than r characters before it and more than r after it.
C8_ContextTruncation ==
    (pc = "contextDone") =>
        /\ ContextBody = ContextWindow
        /\ (CharsBefore = 0) => ~HasLeadingEllipsis
        /\ (CharsAfter = 0) => ~HasTrailingEllipsis
        /\ (CharsBefore > ctxArgs.contextLength /\ CharsAfter > ctxArgs.contextLength)
              => (HasLeadingEllipsis /\ HasTrailingEllipsis)

\* C8 witness: with the default radius, a match with more than 50
\* characters on both sides got both ellipses.
C8_Witness ==
    /\ pc = "contextDone"
    /\ ctxArgs.contextLength = DefaultContextLength
    /\ CharsBefore > DefaultContextLength
    /\ CharsAfter > DefaultContextLength
    /\ HasLeadingEllipsis /\ HasTrailingEllipsis
    /\ Len(context) = 2 * DefaultContextLength + 6 + (ctxArgs.matchEnd - ctxArgs.matchStart)

-----------------------------------------------------------------------------
(* searchPDF.                                                              *)

\* Lines 218 and 27 of the hook: !query.trim().
BlankUntrimmed(query) == query = <<>>

Blank(query) == Trim(query) = <<>>

\* Lines 239-259: the SearchResult of the i-th match (from 0) of a page.
SearchResultOf(pageNumber, i, text, match) ==
    [id |-> <<"search", pageNumber, i>>,
     pageNumber |-> pageNumber,
     text |-> Slice(text, match.matchStart, match.matchEnd),
     matchText |-> Slice(text, match.matchStart, match.matchEnd),
     position |-> [left |-> match.x, top |-> match.y,
                   width |-> match.width, height |-> match.height],
     context |-> GetMatchContext(text, match.matchStart, match.matchEnd,
                                 DefaultContextLength)]

\* Lines 233-260: the results pushed for a page whose text was extracted.
PageResults(pageText, query, pageNumber) ==
    IF pageText.fullText = <<>> THEN <<>>
    ELSE LET ms == FindMatchPositions(query, pageText.fullText, pageText.positionMap)
         IN  [k \in 1..Len(ms) |->
                 SearchResultOf(pageNumber, k - 1, pageText.fullText, ms[k])]

\* Lines 228-260 for the items of a page: one result list for each order
\* the sort may leave the fragments in.
PageSearchOutcomes(pageItems, query, pageNumber) ==
    {PageResults(BuildPageText(sorted), query, pageNumber) :
        sorted \in SortOutcomes(ToTextItems(pageItems))}

\* Line 226 with a failed page ending the loop.
PageAfterStoppingOnError(pageNumber, numPages, threw) ==
    IF threw THEN numPages + 1 ELSE pageNumber + 1

\* Line 226, pageNumber++: reached after a page's results are pushed, after
\* "continue" (line 233) and after an extraction error was caught and
\* turned into an empty page (lines 100-103).
PageAfter(pageNumber, numPages, threw) == pageNumber + 1

\* Lines 222-223: a call past its blank check, about to loop; "rejected"
\* when reading the document threw.
NewScan(owner, query, rejected) ==
    [owner |-> owner, query |-> query,
     numPages |-> Len(pdfDocument.pages), pageNumber |-> 1,
     results |-> <<>>, visited |-> <<>>, failed |-> {}, rejected |-> rejected]

Running(scan) == ~scan.rejected /\ scan.pageNumber <= scan.numPages

\* Lines 226-264, one iteration: the page is extracted (or the extraction
\* throws and the page counts as empty) and its results are pushed.
ScanAfterPage(scan, threw, pageResults) ==
    [scan EXCEPT !.results = @ \o pageResults,
                 !.visited = Append(@, scan.pageNumber),
                 !.failed = IF threw THEN @ \cup {scan.pageNumber} ELSE @,
                 !.pageNumber = PageAfter(scan.pageNumber, scan.numPages, threw)]

RemoveAt(s, i) == SubSeq(s, 1, i - 1) \o SubSeq(s, i + 1, Len(s))

\* One loop iteration of the i-th call in flight.
SearchPDFPage(i, threw) ==
    /\ i \in 1..Len(scans)
    /\ Running(scans[i])
    /\ \E r \in (IF threw THEN {<<>>}
                 ELSE PageSearchOutcomes(pdfDocument.pages[scans[i].pageNumber],
                                         scans[i].query, scans[i].pageNumber)) :
          scans' = [scans EXCEPT ![i] = ScanAfterPage(scans[i], threw, r)]
    /\ event' = [Event("searchPDFPage", scans[i].query) EXCEPT
                    !.docAccess = {<<"getPage", scans[i].pageNumber>>,
                                   <<"getTextContent", scans[i].pageNumber>>}]
    /\ UNCHANGED <<pdfDocument, hookVars, textVars, ctxVars, pc>>

\* What the awaited searchPDF call hands to its caller.
ReturnOf(scan) ==
    [threw |-> scan.rejected, value |-> scan.results,
     visited |-> scan.visited, failed |-> scan.failed]

\* A direct call searchPDF(pdfDocument, query), lines 214-223; the caller
\* awaits a call before it makes the next one; documentThrows says that
\* reading the document (line 223) throws.
SearchPDFCall(query, documentThrows) ==
    /\ ~pdfDocument.null
    /\ \A i \in 1..Len(scans) : scans[i].owner # "caller"
    /\ IF Blank(query)
       THEN /\ event' = Event("searchPDF", query)
            /\ UNCHANGED scans
       ELSE /\ event' = [Event("searchPDF", query) EXCEPT
                            !.docAccess = {<<"numPages", 0>>}]
            /\ scans' = Append(scans, NewScan("caller", query, documentThrows))
    /\ UNCHANGED <<pdfDocument, hookVars, textVars, ctxVars, pc>>

\* Line 266: the loop is over, the call returns its results.
SearchPDFReturn(i) ==
    /\ i \in 1..Len(scans)
    /\ scans[i].owner = "caller"
    /\ ~Running(scans[i])
    /\ event' = [Event("searchPDFReturn", scans[i].query) EXCEPT
                    !.returned = ReturnOf(scans[i])]
    /\ scans' = RemoveAt(scans, i)
    /\ UNCHANGED <<pdfDocument, hookVars, textVars, ctxVars, pc>>

-----------------------------------------------------------------------------
(* Direct calls of searchPDF on small documents.                           *)

\* Pages: one fragment; two fragments supplied right to left, one in upper
\* case; no fragment at all.
ScanPages ==
    {<<Item(<<"a">>, 0, 0, 1, 1)>>,
     <<Item(<<"a">>, 2, 0, 1, 1), Item(<<"A">>, 0, 0, 1, 1)>>,
     <<>>}

\* Queries: empty, white space only, one letter, a letter and a space.
ScanQueries == {<<>>, <<" ">>, <<"a">>, <<"a", " ">>}

InitScan ==
    /\ pdfDocument \in {[null |-> FALSE, pages |-> ps] : ps \in SeqsUpTo(ScanPages, MaxPages)}
    /\ scans = <<>>
    /\ event = Event("none", <<>>)
    /\ pc = "calls"
    /\ IdleHook
    /\ IdleText
    /\ IdleContext

NextScan ==
    \/ \E q \in ScanQueries, documentThrows \in BOOLEAN : SearchPDFCall(q, documentThrows)
    \/ \E i \in 1..Len(scans), threw \in BOOLEAN : SearchPDFPage(i, threw)
    \/ \E i \in 1..Len(scans) : SearchPDFReturn(i)

SpecScan == InitScan /\ [][NextScan]_vars

\* The result lists of pages 1..k of the document, the pages in F
\* contributing nothing, concatenated in page order.
RECURSIVE ExpectedResults(_, _, _, _)
ExpectedResults(pages, query, F, k) ==
    IF k = 0 THEN {<<>>}
    ELSE {before \o r :
            before \in ExpectedResults(pages, query, F, k - 1),
            r \in (IF k \in F THEN {<<>>}
                   ELSE PageSearchOutcomes(pages[k], query, k))}

\* Results are in ascending page order and, within a page, in the order of
\* their match ordinals 0, 1, 2, ...
InPageAndMatchOrder(results) ==
    /\ \A k \in 1..(Len(results) - 1) :
          \/ results[k].pageNumber < results[k + 1].pageNumber
          \/ /\ results[k].pageNumber = results[k + 1].pageNumber
             /\ results[k + 1].id[3] = results[k].id[3] + 1
    /\ \A k \in 1..Len(results) :
          (k = 1 \/ results[k - 1].pageNumber # results[k].pageNumber)
              => results[k].id[3] = 0

\* C4: a searchPDF call with a non-blank query on a document of N pages, in
\* which the extraction of the pages in F throws, does not throw, visits
\* the pages 1..N in ascending order and returns the concatenation, in
\* page order and within a page in match order, of the results of the
\* pages not in F.  (A call throws only when reading the page count
\* throws, before any page is extracted.)
C4_PageFailureIsolation ==
    (event.op = "searchPDFReturn") =>
        /\ event.returned.threw =>
              (event.returned.visited = <<>> /\ event.returned.failed = {})
        /\ ~event.returned.threw =>
              /\ event.returned.visited = [k \in 1..Len(pdfDocument.pages) |-> k]
              /\ event.returned.value \in
                    ExpectedResults(pdfDocument.pages, event.query,
                                    event.returned.failed, Len(pdfDocument.pages))
              /\ InPageAndMatchOrder(event.returned.value)
              /\ \A k \in 1..Len(event.returned.value) :
                    event.returned.value[k].pageNumber \notin event.returned.failed

\* C4 witness: on a 3-page document the extraction of page 2 threw, and the
\* call returned results of page 1 and of page 3.
C4_Witness ==
    /\ event.op = "searchPDFReturn"
    /\ ~event.returned.threw
    /\ Len(pdfDocument.pages) = 3
    /\ event.returned.failed = {2}
    /\ \E k \in 1..Len(event.returned.value) : event.returned.value[k].pageNumber = 1
    /\ \E k \in 1..Len(event.returned.value) : event.returned.value[k].pageNumber = 3
    /\ \E k \in 1..Len(event.returned.value) : event.returned.value[k].id[3] = 1

-----------------------------------------------------------------------------
(* The useSearch hook.  Each handler runs on the state of the latest       *)
(* render; the part of performSearch after its await is a step of its own. *)

\* A query that is empty or consists of white space only.
WhiteSpaceOnly(query) == \A k \in 1..Len(query) : query[k] = " "

\* Line 35 with the comparison dropped.
NeverSameQuery(query, last) == FALSE

\* Line 35: query === lastSearchQuery.current.
SameQuery(query, last) == query = last

\* The hook's state as a handler sees and sets it, with the results it
\* hands to onNavigateToResult and whether an exception is in flight.
HookState ==
    [searchResults |-> searchResults, currentResultIndex |-> currentResultIndex,
     isSearching |-> isSearching, navigated |-> <<>>, threw |-> FALSE]

\* searchResults[i] of JavaScript: undefined outside the array.
UndefinedResult ==
    [id |-> <<"undefined", 0, 0>>, pageNumber |-> 0, text |-> <<>>,
     matchText |-> <<>>,
     position |-> [left |-> 0, top |-> 0, width |-> 0, height |-> 0],
     context |-> <<>>]

ResultAt(results, i) ==
    IF 0 <= i /\ i < Len(results) THEN results[i + 1] ELSE UndefinedResult

\* Lines 44-52 with the results set and the index left as it was.
InstallResultsKeepingIndex(st, results, callbackThrows) ==
    [st EXCEPT !.searchResults = results]

\* Lines 44-52: the results are set, and the first one, if any, becomes
\* current and goes to onNavigateToResult, which may throw.
InstallResults(st, results, callbackThrows) ==
    IF Len(results) > 0
    THEN [st EXCEPT !.searchResults = results,
                    !.currentResultIndex = 0,
                    !.navigated = <<results[1]>>,
                    !.threw = callbackThrows]
    ELSE [st EXCEPT !.searchResults = results,
                    !.currentResultIndex = -1]

\* Lines 42-52 with the results of a query that is no longer the
\* remembered one dropped.
TryBlockDroppingStale(st, scan, callbackThrows) ==
    IF scan.rejected THEN [st EXCEPT !.threw = TRUE]
    ELSE IF scan.query # lastSearchQuery THEN st
    ELSE InstallResults(st, scan.results, callbackThrows)

\* Lines 42-52: the try block, entered again when searchPDF has settled.
TryBlock(st, scan, callbackThrows) ==
    IF scan.rejected THEN [st EXCEPT !.threw = TRUE]
    ELSE InstallResults(st, scan.results, callbackThrows)

\* Lines 53-56 with the error thrown on.
CatchBlockRethrowing(st) == st

\* Lines 53-56: the catch block.
CatchBlock(st) ==
    IF st.threw
    THEN [st EXCEPT !.searchResults = <<>>, !.currentResultIndex = -1,
                    !.threw = FALSE]
    ELSE st

\* Lines 57-59: the finally block.
FinallyBlock(st) == [st EXCEPT !.isSearching = FALSE]

\* Line 67 without the wrap-around.
NextIndexUnwrapped(i, n) == i + 1

\* Line 67: (currentResultIndex + 1) % searchResults.length.
NextIndex(i, n) == (i + 1) % n

\* Lines 75-78.
PrevIndex(i, n) == IF i = 0 THEN n - 1 ELSE i - 1

\* performSearch(query), lines 26-41: up to the await of searchPDF, whose
\* synchronous part (lines 218-223) reads the document; documentThrows
\* says that this read throws.
PerformSearch(query, documentThrows) ==
    /\ IF pdfDocument.null \/ Blank(query)
       THEN /\ searchResults' = <<>>
            /\ currentResultIndex' = -1
            /\ lastSearchQuery' = <<>>
            /\ event' = [Event("performSearch", query) EXCEPT !.settled = "resolved"]
            /\ UNCHANGED <<isSearching, scans>>
       ELSE IF SameQuery(query, lastSearchQuery)
       THEN /\ event' = [Event("performSearch", query) EXCEPT !.settled = "resolved"]
            /\ UNCHANGED <<searchResults, currentResultIndex, lastSearchQuery,
                           isSearching, scans>>
       ELSE /\ Len(scans) < MaxScans
            /\ isSearching' = TRUE
            /\ lastSearchQuery' = query
            /\ scans' = Append(scans, NewScan("performSearch", query, documentThrows))
            /\ event' = [Event("performSearch", query) EXCEPT
                            !.docAccess = {<<"numPages", 0>>}]
            /\ UNCHANGED <<searchResults, currentResultIndex>>
    /\ remembered' = IF WhiteSpaceOnly(query) THEN <<>> ELSE query
    /\ UNCHANGED <<pdfDocument, textVars, ctxVars, pc>>

\* performSearch, lines 42-59: searchPDF has settled and the call goes on
\* through try, catch and finally; callbackThrows says that
\* onNavigateToResult throws.
PerformSearchResume(i, callbackThrows) ==
    /\ i \in 1..Len(scans)
    /\ scans[i].owner = "performSearch"
    /\ ~Running(scans[i])
    /\ callbackThrows => (~scans[i].rejected /\ Len(scans[i].results) > 0)
    /\ LET tried == TryBlock(HookState, scans[i], callbackThrows)
           st == FinallyBlock(CatchBlock(tried))
       IN  /\ searchResults' = st.searchResults
           /\ currentResultIndex' = st.currentResultIndex
           /\ isSearching' = st.isSearching
           /\ event' = [Event("performSearchResume", scans[i].query) EXCEPT
                           !.navigated = st.navigated,
                           !.settled = IF st.threw THEN "rejected" ELSE "resolved",
                           !.failure = IF scans[i].rejected THEN "scan"
                                       ELSE IF callbackThrows THEN "callback"
                                       ELSE "none",
                           !.returned = ReturnOf(scans[i])]
    /\ scans' = RemoveAt(scans, i)
    /\ UNCHANGED <<lastSearchQuery, remembered, pdfDocument, textVars, ctxVars, pc>>

\* navigateToNext, lines 64-70.
NavigateToNext ==
    /\ IF Len(searchResults) = 0
       THEN /\ event' = Event("navigateToNext", <<>>)
            /\ UNCHANGED currentResultIndex
       ELSE LET nextIndex == NextIndex(currentResultIndex, Len(searchResults))
            IN  /\ currentResultIndex' = nextIndex
                /\ event' = [Event("navigateToNext", <<>>) EXCEPT
                                !.navigated = <<ResultAt(searchResults, nextIndex)>>]
    /\ UNCHANGED <<searchResults, isSearching, lastSearchQuery, remembered,
                   pdfDocument, scans, textVars, ctxVars, pc>>

\* navigateToPrevious, lines 72-81.
NavigateToPrevious ==
    /\ IF Len(searchResults) = 0
       THEN /\ event' = Event("navigateToPrevious", <<>>)
            /\ UNCHANGED currentResultIndex
       ELSE LET prevIndex == PrevIndex(currentResultIndex, Len(searchResults))
            IN  /\ currentResultIndex' = prevIndex
                /\ event' = [Event("navigateToPrevious", <<>>) EXCEPT
                                !.navigated = <<ResultAt(searchResults, prevIndex)>>]
    /\ UNCHANGED <<searchResults, isSearching, lastSearchQuery, remembered,
                   pdfDocument, scans, textVars, ctxVars, pc>>

\* clearSearch, lines 83-87.
ClearSearch ==
    /\ searchResults' = <<>>
    /\ currentResultIndex' = -1
    /\ lastSearchQuery' = <<>>
    /\ remembered' = <<>>
    /\ event' = Event("clearSearch", <<>>)
    /\ UNCHANGED <<isSearching, pdfDocument, scans, textVars, ctxVars, pc>>

-----------------------------------------------------------------------------
(* The hook on a document, with its callers.                               *)

\* The document of the hook: page 1 reads "a b", page 2 reads "aa", so
\* that "a" has three results and "b" one.
HookDocument ==
    [null |-> FALSE,
     pages |-> << <<Item(<<"b">>, 2, 0, 1, 1), Item(<<"a">>, 0, 0, 1, 1)>>,
                  <<Item(<<"a", "a">>, 0, 0, 2, 1)>> >>]

\* Queries typed into the hook: empty, white space only, two words.
HookQueries == {<<>>, <<" ">>, <<"a">>, <<"b">>}

BlankQueries == {q \in HookQueries : Blank(q)}

InitHook ==
    /\ pdfDocument \in {NoDocument, HookDocument}
    /\ scans = <<>>
    /\ event = Event("none", <<>>)
    /\ pc = "hook"
    /\ IdleHook
    /\ IdleText
    /\ IdleContext

NextHook ==
    \/ \E q \in HookQueries, documentThrows \in BOOLEAN : PerformSearch(q, documentThrows)
    \/ \E i \in 1..Len(scans), threw \in BOOLEAN : SearchPDFPage(i, threw)
    \/ \E i \in 1..Len(scans), callbackThrows \in BOOLEAN : PerformSearchResume(i, callbackThrows)
    \/ NavigateToNext
    \/ NavigateToPrevious
    \/ ClearSearch
    \/ \E q \in BlankQueries : SearchPDFCall(q, FALSE)

Spec == InitHook /\ [][NextHook]_vars

-----------------------------------------------------------------------------
(* Properties of the hook.                                                 *)

\* This step started a scan (a searchPDF call that reads the document) for
\* the query.
ScanStartedFor(query) ==
    /\ Len(scans') = Len(scans) + 1
    /\ scans'[Len(scans')].query = query
    /\ scans'[Len(scans')].owner = "performSearch"
    /\ <<"numPages", 0>> \in event'.docAccess

\* C1: with a document loaded, performSearch(q) with a non-blank q starts
\* a scan if and only if q differs from the remembered query, the most
\* recent non-blank query passed to performSearch since the last
\* clearSearch or blank query.
C1_DuplicateSuppression ==
    [][(/\ event'.op = "performSearch"
        /\ ~WhiteSpaceOnly(event'.query)
        /\ ~pdfDocument.null)
          => (ScanStartedFor(event'.query) <=> (event'.query # remembered))]_vars

\* C1 witness: after performSearch("a"), clearSearch(), performSearch("a")
\* two scans for "a" are in flight, and a further performSearch("a") has
\* been suppressed.
C1_Witness ==
    /\ event.op = "performSearch"
    /\ event.query = <<"a">>
    /\ event.docAccess = {}
    /\ ~pdfDocument.null
    /\ Len(scans) = 2
    /\ scans[1].query = <<"a">> /\ scans[2].query = <<"a">>

\* C2: performSearch with an empty or white-space query leaves
\* searchResults = [], currentResultIndex = -1 and no remembered query and
\* touches the document not at all; searchPDF called with such a query
\* returns [] without touching the document.
C2_EmptyQuery ==
    /\ (event.op = "performSearch" /\ WhiteSpaceOnly(event.query)) =>
          /\ searchResults = <<>>
          /\ currentResultIndex = -1
          /\ lastSearchQuery = <<>>
          /\ event.docAccess = {}
          /\ event.settled = "resolved"
    /\ (event.op = "searchPDF" /\ WhiteSpaceOnly(event.query)) =>
          /\ event.returned = NoReturn
          /\ event.docAccess = {}
          /\ \A i \in 1..Len(scans) : scans[i].owner # "caller"

\* C2 witness: performSearch(" ") has returned while two scans were in
\* flight.
C2_Witness ==
    /\ event.op = "performSearch"
    /\ event.query = <<" ">>
    /\ ~pdfDocument.null
    /\ Len(scans) = 2
    /\ isSearching

\* What a navigation step to index target must have done.
NavigatedTo(target) ==
    /\ currentResultIndex' = target
    /\ event'.navigated = <<searchResults[target + 1]>>
    /\ UNCHANGED <<searchResults, isSearching, lastSearchQuery, scans>>

NavigatedNowhere ==
    /\ event'.navigated = <<>>
    /\ UNCHANGED <<searchResults, currentResultIndex, isSearching, lastSearchQuery, scans>>

\* C3: with n > 0 results and current index i, navigateToNext sets the
\* index to (i + 1) mod n and navigateToPrevious to (i - 1 + n) mod n, each
\* invoking the callback once with the result at the new index; with n = 0
\* both change nothing and invoke nothing.
C3_WrapAround ==
    [][LET n == Len(searchResults)
           i == currentResultIndex
       IN  /\ (event'.op = "navigateToNext" /\ n > 0 /\ 0 <= i /\ i < n)
                 => NavigatedTo((i + 1) % n)
           /\ (event'.op = "navigateToPrevious" /\ n > 0 /\ 0 <= i /\ i < n)
                 => NavigatedTo((i - 1 + n) % n)
           /\ (event'.op \in {"navigateToNext", "navigateToPrevious"} /\ n = 0)
                 => NavigatedNowhere]_vars

\* C3 witness: with 3 results, navigateToNext has wrapped from 2 to 0.
C3_Witness ==
    /\ event.op = "navigateToNext"
    /\ Len(searchResults) = 3
    /\ currentResultIndex = 0
    /\ event.navigated = <<searchResults[1]>>

\* C6: a performSearch call never settles by rejecting; when its scan or
\* the navigation callback threw, it leaves searchResults = [] and
\* currentResultIndex = -1; and it leaves isSearching false.
C6_ErrorFolding ==
    /\ event.settled # "rejected"
    /\ (event.op = "performSearchResume") =>
          /\ event.settled = "resolved"
          /\ ~isSearching
          /\ (event.failure # "none") =>
                (searchResults = <<>> /\ currentResultIndex = -1)

\* C6 witness: the navigation callback threw on the first of three
\* results, and the call resolved with no results.
C6_Witness ==
    /\ event.op = "performSearchResume"
    /\ event.failure = "callback"
    /\ Len(event.returned.value) = 3
    /\ event.settled = "resolved"
    /\ searchResults = <<>>

\* C7: the hook neither cancels nor discards a scan in flight: a scan that
\* completes installs its results whether or not its query is still the
\* remembered one, and leaves the remembered query alone; and
\* performSearch with the remembered query changes nothing, whatever
\* results are displayed.
C7_SupersededQueryRace ==
    [][/\ (event'.op = "performSearchResume" /\ event'.failure = "none") =>
             /\ searchResults' = event'.returned.value
             /\ currentResultIndex' = (IF event'.returned.value = <<>> THEN -1 ELSE 0)
             /\ lastSearchQuery' = lastSearchQuery
       /\ (/\ event'.op = "performSearch"
           /\ ~WhiteSpaceOnly(event'.query)
           /\ ~pdfDocument.null
           /\ event'.query = lastSearchQuery) =>
             UNCHANGED <<searchResults, currentResultIndex, lastSearchQuery, scans>>]_vars

\* C7 witness: "a" and then "b" were searched, the scan for "b" completed
\* before the scan for "a", no scan is in flight, the results of "a" are
\* displayed while "b" is remembered, and performSearch("b") has been
\* suppressed.
C7_Witness ==
    /\ event.op = "performSearch"
    /\ event.query = <<"b">>
    /\ event.docAccess = {}
    /\ lastSearchQuery = <<"b">>
    /\ scans = <<>>
    /\ Len(searchResults) = 3
    /\ currentResultIndex = 0
    /\ \A k \in 1..3 : searchResults[k].matchText = <<"a">>

\* C12: in every state of the hook currentResultIndex is -1 exactly when
\* searchResults is empty and otherwise an index into searchResults; and a
\* scan completion that installs a non-empty list hands its first result
\* to the navigation callback and (unless the callback throws) leaves that
\* list with index 0, while one that installs an empty list leaves index
\* -1 and calls nothing.
C12_IndexValidity ==
    /\ IF searchResults = <<>> THEN currentResultIndex = -1
       ELSE 0 <= currentResultIndex /\ currentResultIndex < Len(searchResults)
    /\ (event.op = "performSearchResume" /\ event.failure # "scan") =>
          IF event.returned.value # <<>>
          THEN /\ event.navigated = <<event.returned.value[1]>>
               /\ (event.failure = "none") =>
                     (searchResults = event.returned.value /\ currentResultIndex = 0)
          ELSE /\ searchResults = <<>>
               /\ currentResultIndex = -1
               /\ event.navigated = <<>>

\* C12 witness: while another scan is in flight, a scan on which both
\* pages failed has completed and installed an empty list.
C12_Witness ==
    /\ event.op = "performSearchResume"
    /\ event.failure = "none"
    /\ event.returned.failed = {1, 2}
    /\ event.returned.value = <<>>
    /\ searchResults = <<>>
    /\ currentResultIndex = -1
    /\ scans # <<>>

\* The scans started by performSearch whose call has not yet gone on past
\* its await.
ScansInFlight == {i \in 1..Len(scans) : scans[i].owner = "performSearch"}

\* C13: in every state of the hook isSearching is true if and only if at
\* least one scan started by performSearch has not yet completed.
C13_InFlightFlag == isSearching <=> (ScansInFlight # {})

=============================================================================
